---- MODULE Spec2Model ----
(***************************************************************************)
(* Windowed selection engine of the CustomSelect prompt                    *)
(* (src/inquire/src/prompts/custom_select/prompt.rs, action.rs).           *)
(*                                                                         *)
(* The prompt is a record `self` holding the Window fields, the fetched    *)
(* slice and the filter text.  Every method of CustomSelectPrompt is an    *)
(* operator from the record before the call to the record after it (and    *)
(* the value returned); the actions of the state machine apply them to the *)
(* variables.                                                              *)
(***************************************************************************)
EXTENDS Integers, Sequences, FiniteSets, TLC

\* ------------------------------------------------------------------ bounds
MaxStart == 11     \* starting_cursor ranges over 0..MaxStart
MaxWindow == 4    \* page_size (window_length) ranges over 1..MaxWindow
MaxTotal == 10     \* the option source holds the options 1..MaxTotal

VARIABLES
    offset,           \* Window.offset
    window_length,    \* Window.window_length
    total_length,     \* Window.total_length
    cursor_index,     \* Window.cursor_index
    fetched_options,  \* CustomSelectPrompt.fetched_options
    input,            \* content of CustomSelectPrompt.input (the filter text)
    phase,            \* "new" | "ready" | "done" | "panicked"
    lastAction,       \* the operation that produced this state
    result,           \* what that operation returned
    answer,           \* Option<ListOption<T>> returned by submit: <<>> or <<a>>
    prev,             \* the prompt record before the last operation
    moveRun,          \* the current run of consecutive identical moves
    fetch_calls,      \* the calls of OptionFetcher::fetch the last operation made
    lastInput,        \* the input_action of the last action (NoInput if none)
    vim_mode,         \* CustomSelectConfig.vim_mode
    key,              \* the key last handed to from_key
    decoded           \* what from_key returned for it: <<>> or <<action>>

vars == <<offset, window_length, total_length, cursor_index, fetched_options,
          input, phase, lastAction, result, answer, prev, moveRun,
          fetch_calls, lastInput, vim_mode, key, decoded>>

\* ------------------------------------------------------------ usize helpers
Min(a, b) == IF a < b THEN a ELSE b

Max(a, b) == IF a > b THEN a ELSE b

saturating_sub(a, b) == IF a > b THEN a - b ELSE 0

\* ------------------------------------------------------------ option source
\* A filter text is one of 0..MaxTotal; the text f matches the options
\* f+1 .. MaxTotal of the source, in that order, so the logical index of an
\* option depends on the filter and the number of matches is MaxTotal - f.
Filters == 0..MaxTotal

Matching(content) == [i \in 1..(MaxTotal - content) |-> content + i]

\* OptionFetcher::fetch(input, offset, amount) -> (Vec<T>, usize), for a
\* source that keeps its contract: deterministic, at most `amount` items,
\* the items at logical positions offset.., none when offset >= total.
fetch(content, off, amount) ==
    LET all == Matching(content)
        total == Len(all)
        n == Min(amount, saturating_sub(total, off))
    IN  [options |-> [k \in 1..n |-> all[off + k]], total_length |-> total]

\* ------------------------------------------------------------- the prompt
\* The prompt at the start of an operation.  The field `calls` is the log of
\* the fetch calls the operation has made so far, (input, offset, amount)
\* each.
Self ==
    [offset |-> offset, window_length |-> window_length,
     total_length |-> total_length, cursor_index |-> cursor_index,
     fetched_options |-> fetched_options, input |-> input, calls |-> <<>>]

\* CustomSelectPrompt::new: the Window starts at the starting cursor with
\* nothing fetched.
new(starting_cursor, page_size, starting_filter_input) ==
    [offset |-> starting_cursor, window_length |-> page_size,
     total_length |-> 0, cursor_index |-> starting_cursor,
     fetched_options |-> <<>>, input |-> starting_filter_input, calls |-> <<>>]

\* Mutant of update_cursor_position: the offset is not pulled back to centre
\* the cursor.
update_cursor_position_uncentred(self, new_position) ==
    IF new_position # self.cursor_index
    THEN [self |-> [self EXCEPT
                      !.cursor_index = new_position,
                      !.offset =
                          Min(new_position,
                              saturating_sub(self.total_length, self.window_length))],
          result |-> "NeedsRedraw"]
    ELSE [self |-> self, result |-> "Clean"]

\* Mutant of update_cursor_position: the offset is pulled back by a whole
\* window instead of half of one.
update_cursor_position_whole_window(self, new_position) ==
    IF new_position # self.cursor_index
    THEN [self |-> [self EXCEPT
                      !.cursor_index = new_position,
                      !.offset =
                          Min(Min(new_position,
                                  saturating_sub(self.total_length, self.window_length)),
                              saturating_sub(new_position, self.window_length))],
          result |-> "NeedsRedraw"]
    ELSE [self |-> self, result |-> "Clean"]

\* Mutant of update_cursor_position: the comparison with the current cursor
\* is missing, the offset is derived and a redraw asked for every time.
update_cursor_position_always(self, new_position) ==
    [self |-> [self EXCEPT
                 !.cursor_index = new_position,
                 !.offset =
                     Min(Min(new_position,
                             saturating_sub(self.total_length, self.window_length)),
                         saturating_sub(new_position, self.window_length \div 2))],
     result |-> "NeedsRedraw"]

update_cursor_position(self, new_position) ==
    IF new_position # self.cursor_index
    THEN [self |-> [self EXCEPT
                      !.cursor_index = new_position,
                      !.offset =
                          Min(Min(new_position,
                                  saturating_sub(self.total_length, self.window_length)),
                              saturating_sub(new_position, self.window_length \div 2))],
          result |-> "NeedsRedraw"]
    ELSE [self |-> self, result |-> "Clean"]

\* Mutant of move_cursor_up: the empty-list guard is missing, so the
\* remainder by total_length = 0 panics.
move_cursor_up_unguarded(self, qty) ==
    IF self.total_length = 0
    THEN [self |-> self, result |-> "Panic"]
    ELSE LET q == qty % self.total_length
             new_index == (self.cursor_index + self.total_length - q) % self.total_length
         IN  update_cursor_position(self, new_index)

move_cursor_up(self, qty) ==
    IF self.total_length = 0
    THEN [self |-> self, result |-> "Clean"]
    ELSE LET q == qty % self.total_length
             new_index == (self.cursor_index + self.total_length - q) % self.total_length
         IN  update_cursor_position(self, new_index)

\* Mutant of move_cursor_down: the cursor stops at the last option instead of
\* wrapping to the first.
move_cursor_down_no_wrap(self, qty) ==
    IF self.total_length = 0
    THEN [self |-> self, result |-> "Clean"]
    ELSE LET new_index == Min(self.cursor_index + qty, self.total_length - 1)
         IN  update_cursor_position(self, new_index)

move_cursor_down(self, qty) ==
    IF self.total_length = 0
    THEN [self |-> self, result |-> "Clean"]
    ELSE LET new_index == (self.cursor_index + qty) % self.total_length
         IN  update_cursor_position(self, new_index)

fetched_index_from_cursor_index(self) ==
    saturating_sub(self.cursor_index, self.offset)

\* Mutant of has_answer_highlighted: the index one past the slice counts as
\* present.
has_answer_highlighted_inclusive(self) ==
    fetched_index_from_cursor_index(self) <= Len(self.fetched_options)

\* Vec::get(i).is_some(), i counted from 0
has_answer_highlighted(self) ==
    fetched_index_from_cursor_index(self) < Len(self.fetched_options)

\* Vec::swap_remove(index), index counted from 0: the element is taken out
\* and the last element moves into its place.
swap_remove(v, index) ==
    LET n == Len(v)
        rest == SubSeq(v, 1, n - 1)
    IN  [value |-> v[index + 1],
         vec |-> IF index + 1 = n THEN rest ELSE [rest EXCEPT ![index + 1] = v[n]]]

\* ListOption::new(index, value)
ListOption(index, value) == [index |-> index, value |-> value]

get_final_answer(self) ==
    LET index == fetched_index_from_cursor_index(self)
    IN  IF index >= Len(self.fetched_options)
        THEN [self |-> self, panic |-> TRUE, value |-> ListOption(index, 0)]
        ELSE LET r == swap_remove(self.fetched_options, index)
             IN  [self |-> [self EXCEPT !.fetched_options = r.vec],
                  panic |-> FALSE,
                  value |-> ListOption(index, r.value)]

\* Mutant of refetch: the cursor is not clamped to the last option.
refetch_no_total_clamp(self) ==
    LET f == fetch(self.input, self.offset, self.window_length)
        s1 == [self EXCEPT !.fetched_options = f.options,
                           !.total_length = f.total_length,
                           !.calls = Append(@, <<self.input, self.offset,
                                                 self.window_length>>)]
    IN  update_cursor_position(
            s1,
            Min(Max(s1.cursor_index, s1.offset),
                s1.offset + s1.window_length)).self

\* Mutant of refetch: the cursor is clamped to total_length, one past the
\* last option.
refetch_clamp_past_end(self) ==
    LET f == fetch(self.input, self.offset, self.window_length)
        s1 == [self EXCEPT !.fetched_options = f.options,
                           !.total_length = f.total_length,
                           !.calls = Append(@, <<self.input, self.offset,
                                                 self.window_length>>)]
    IN  update_cursor_position(
            s1,
            Min(Min(Max(s1.cursor_index, s1.offset),
                    s1.offset + s1.window_length),
                s1.total_length)).self

refetch(self) ==
    LET f == fetch(self.input, self.offset, self.window_length)
        s1 == [self EXCEPT !.fetched_options = f.options,
                           !.total_length = f.total_length,
                           !.calls = Append(@, <<self.input, self.offset,
                                                 self.window_length>>)]
    IN  update_cursor_position(
            s1,
            Min(Min(Max(s1.cursor_index, s1.offset),
                    s1.offset + s1.window_length),
                saturating_sub(s1.total_length, 1))).self

setup(self) == refetch(self)

\* submit: Ok(Some(answer)) or Ok(None); "Panic" if get_final_answer indexes
\* outside the slice.
submit(self) ==
    IF has_answer_highlighted(self)
    THEN LET a == get_final_answer(self)
         IN  IF a.panic
             THEN [self |-> self, result |-> "Panic", answer |-> <<>>]
             ELSE [self |-> a.self, result |-> "Ok", answer |-> <<a.value>>]
    ELSE [self |-> self, result |-> "Ok", answer |-> <<>>]

\* ------------------------------------------------------ filter text input
\* Input::handle(input_action): what the edit does to the text is carried by
\* the action itself: it changes the content to another text, only moves the
\* text cursor, or does nothing.
InputActions ==
    [result : {"ContentChanged"}, content : Filters]
        \cup [result : {"PositionChanged", "Clean"}, content : {0}]

Input_handle(self, input_action) ==
    IF input_action.result = "ContentChanged"
    THEN [self |-> [self EXCEPT !.input = input_action.content],
          result |-> "ContentChanged"]
    ELSE [self |-> self, result |-> input_action.result]

\* From<InputActionResult> for ActionResult
ActionResult_from(r) == IF r = "Clean" THEN "Clean" ELSE "NeedsRedraw"

\* ----------------------------------------------------------------- handle
MoveKinds == {"MoveUp", "MoveDown"}

TodoKinds == {"PageUp", "PageDown", "MoveToStart", "MoveToEnd"}

\* the input_action field of the actions that carry none
NoInput == [result |-> "Clean", content |-> 0]

Actions ==
    [kind : MoveKinds \cup TodoKinds, input_action : {NoInput}]
        \cup [kind : {"FilterInput"}, input_action : InputActions]

\* Mutant of handle: a FilterInput refetches whatever the input reports.
handle_always_refetch(self, action) ==
    CASE action.kind = "MoveUp" ->
            LET r == move_cursor_up(self, 1)
            IN  [self |-> refetch(r.self), result |-> r.result]
      [] action.kind = "MoveDown" ->
            LET r == move_cursor_down(self, 1)
            IN  [self |-> refetch(r.self), result |-> r.result]
      [] action.kind \in TodoKinds ->
            [self |-> self, result |-> "Panic"]
      [] action.kind = "FilterInput" ->
            LET r == Input_handle(self, action.input_action)
            IN  [self |-> refetch(r.self), result |-> ActionResult_from(r.result)]

handle(self, action) ==
    CASE action.kind = "MoveUp" ->
            LET r == move_cursor_up(self, 1)
            IN  [self |-> refetch(r.self), result |-> r.result]
      [] action.kind = "MoveDown" ->
            LET r == move_cursor_down(self, 1)
            IN  [self |-> refetch(r.self), result |-> r.result]
      [] action.kind \in TodoKinds ->
            \* todo!()
            [self |-> self, result |-> "Panic"]
      [] action.kind = "FilterInput" ->
            LET r == Input_handle(self, action.input_action)
            IN  [self |-> IF r.result = "ContentChanged" THEN refetch(r.self) ELSE r.self,
                 result |-> ActionResult_from(r.result)]

\* render: the page descriptor handed to the backend
render(self) ==
    [first |-> self.offset = 0,
     last |-> self.offset + self.window_length >= self.total_length,
     content |-> [i \in 1..Len(self.fetched_options) |->
                     ListOption(self.offset + (i - 1), self.fetched_options[i])],
     cursor |-> <<fetched_index_from_cursor_index(self)>>,
     total |-> self.total_length]

\* ------------------------------------------------------------ key decoder
\* ui::Key as from_key sees it: Up, Down and Char carry KeyModifiers; PageUp,
\* PageDown, Home and End are matched without any.  A modifier set is one of
\* the names below.
KeyModifierSets == {"NONE", "CONTROL", "SHIFT", "ALT", "CONTROL|SHIFT"}

Chars == {"k", "j", "p", "n", "a"}

NoMods == "-"

Keys ==
    [code : {"Up", "Down"}, ch : {"-"}, mods : KeyModifierSets]
        \cup [code : {"Char"}, ch : Chars, mods : KeyModifierSets]
        \cup [code : {"PageUp", "PageDown", "Home", "End", "Left", "Right",
                      "Backspace", "Delete", "Enter", "Esc", "Tab"},
              ch : {"-"}, mods : {NoMods}]

\* the value of `key` before any key was decoded
NoKey == [code |-> "none", ch |-> "-", mods |-> NoMods]

\* InputAction::from_key(key, &()): the filter text input's own decoder,
\* <<>> for None and <<a>> for Some(a).  Characters typed without Control or
\* Alt are written, the editing keys edit, everything else is not an input
\* action.
InputAction_from_key(k) ==
    CASE k.code = "Char" /\ k.mods \in {"NONE", "SHIFT"} -> <<[op |-> "Write", ch |-> k.ch]>>
      [] k.code \in {"Left", "Right", "Backspace", "Delete"} -> <<[op |-> k.code, ch |-> "-"]>>
      [] OTHER -> <<>>

\* The decoded action Some(FilterInput(a)), Some(MoveUp), ...
FilterInputOf(a) == [kind |-> "FilterInput", input_action |-> a]

MoveOf(kind) == [kind |-> kind, input_action |-> [op |-> "-", ch |-> "-"]]

\* Mutant of from_key: the vim bindings are never consulted.
from_key_no_vim(k, config_vim_mode) ==
    CASE (k.code = "Up" /\ k.mods = "NONE")
            \/ (k.code = "Char" /\ k.ch = "p" /\ k.mods = "CONTROL") -> <<MoveOf("MoveUp")>>
      [] k.code = "PageUp" -> <<MoveOf("PageUp")>>
      [] k.code = "Home" -> <<MoveOf("MoveToStart")>>
      [] (k.code = "Down" /\ k.mods = "NONE")
            \/ (k.code = "Char" /\ k.ch = "n" /\ k.mods = "CONTROL") -> <<MoveOf("MoveDown")>>
      [] k.code = "PageDown" -> <<MoveOf("PageDown")>>
      [] k.code = "End" -> <<MoveOf("MoveToEnd")>>
      [] OTHER ->
            LET a == InputAction_from_key(k)
            IN  IF a # <<>> THEN <<FilterInputOf(a[1])>> ELSE <<>>

\* Mutant of from_key: the arrows move whatever modifiers are held.
from_key_any_modifier(k, config_vim_mode) ==
    LET vim == IF config_vim_mode
               THEN CASE k.code = "Char" /\ k.ch = "k" /\ k.mods = "NONE" -> <<MoveOf("MoveUp")>>
                      [] k.code = "Char" /\ k.ch = "j" /\ k.mods = "NONE" -> <<MoveOf("MoveDown")>>
                      [] OTHER -> <<>>
               ELSE <<>>
    IN  IF vim # <<>>
        THEN vim
        ELSE CASE k.code = "Up"
                    \/ (k.code = "Char" /\ k.ch = "p" /\ k.mods = "CONTROL") -> <<MoveOf("MoveUp")>>
               [] k.code = "PageUp" -> <<MoveOf("PageUp")>>
               [] k.code = "Home" -> <<MoveOf("MoveToStart")>>
               [] k.code = "Down"
                    \/ (k.code = "Char" /\ k.ch = "n" /\ k.mods = "CONTROL") -> <<MoveOf("MoveDown")>>
               [] k.code = "PageDown" -> <<MoveOf("PageDown")>>
               [] k.code = "End" -> <<MoveOf("MoveToEnd")>>
               [] OTHER ->
                    LET a == InputAction_from_key(k)
                    IN  IF a # <<>> THEN <<FilterInputOf(a[1])>> ELSE <<>>

\* CustomSelectPromptAction::from_key(key, config): <<>> for None, <<action>>
\* for Some(action)
from_key(k, config_vim_mode) ==
    LET vim == IF config_vim_mode
               THEN CASE k.code = "Char" /\ k.ch = "k" /\ k.mods = "NONE" -> <<MoveOf("MoveUp")>>
                      [] k.code = "Char" /\ k.ch = "j" /\ k.mods = "NONE" -> <<MoveOf("MoveDown")>>
                      [] OTHER -> <<>>
               ELSE <<>>
    IN  IF vim # <<>>
        THEN vim
        ELSE CASE (k.code = "Up" /\ k.mods = "NONE")
                    \/ (k.code = "Char" /\ k.ch = "p" /\ k.mods = "CONTROL") -> <<MoveOf("MoveUp")>>
               [] k.code = "PageUp" -> <<MoveOf("PageUp")>>
               [] k.code = "Home" -> <<MoveOf("MoveToStart")>>
               [] (k.code = "Down" /\ k.mods = "NONE")
                    \/ (k.code = "Char" /\ k.ch = "n" /\ k.mods = "CONTROL") -> <<MoveOf("MoveDown")>>
               [] k.code = "PageDown" -> <<MoveOf("PageDown")>>
               [] k.code = "End" -> <<MoveOf("MoveToEnd")>>
               [] OTHER ->
                    LET a == InputAction_from_key(k)
                    IN  IF a # <<>> THEN <<FilterInputOf(a[1])>> ELSE <<>>

\* --------------------------------------------------------- state machine
NoRun == [kind |-> "none", start |-> 0, n |-> 0]

\* The run of consecutive identical moves after one more move of `kind`
\* from the prompt record `self`.
RunAfter(self, kind) ==
    IF moveRun.kind = kind /\ moveRun.n < self.total_length
    THEN [moveRun EXCEPT !.n = moveRun.n + 1]
    ELSE [kind |-> kind, start |-> self.cursor_index, n |-> 1]

Store(self) ==
    /\ offset' = self.offset
    /\ window_length' = self.window_length
    /\ total_length' = self.total_length
    /\ cursor_index' = self.cursor_index
    /\ fetched_options' = self.fetched_options
    /\ input' = self.input

Init ==
    \E starting_cursor \in 0..MaxStart, page_size \in 1..MaxWindow,
       starting_filter_input \in Filters :
        LET self == new(starting_cursor, page_size, starting_filter_input)
        IN  /\ offset = self.offset
            /\ window_length = self.window_length
            /\ total_length = self.total_length
            /\ cursor_index = self.cursor_index
            /\ fetched_options = self.fetched_options
            /\ input = self.input
            /\ phase = "new"
            /\ lastAction = "new"
            /\ result = "Ok"
            /\ answer = <<>>
            /\ prev = self
            /\ moveRun = NoRun
            /\ fetch_calls = <<>>
            /\ lastInput = NoInput
            /\ vim_mode \in BOOLEAN
            /\ key = NoKey
            /\ decoded = <<>>

Setup ==
    /\ phase = "new"
    /\ Store(setup(Self))
    /\ fetch_calls' = setup(Self).calls
    /\ UNCHANGED <<lastInput, vim_mode, key, decoded>>
    /\ phase' = "ready"
    /\ lastAction' = "setup"
    /\ result' = "Ok"
    /\ prev' = Self
    /\ UNCHANGED <<answer, moveRun>>

Handle(action) ==
    /\ LET r == handle(Self, action)
       IN  /\ Store(r.self)
           /\ fetch_calls' = r.self.calls
           /\ result' = r.result
           /\ phase' = IF r.result = "Panic" THEN "panicked" ELSE "ready"
    /\ lastInput' = action.input_action
    /\ UNCHANGED <<vim_mode, key, decoded>>
    /\ lastAction' = action.kind
    /\ prev' = Self
    /\ moveRun' = IF action.kind \in MoveKinds THEN RunAfter(Self, action.kind) ELSE NoRun
    /\ UNCHANGED answer

MoveUp ==
    /\ phase = "ready"
    /\ Handle([kind |-> "MoveUp", input_action |-> NoInput])

MoveDown ==
    /\ phase = "ready"
    /\ Handle([kind |-> "MoveDown", input_action |-> NoInput])

PageUp ==
    /\ phase = "ready"
    /\ Handle([kind |-> "PageUp", input_action |-> NoInput])

PageDown ==
    /\ phase = "ready"
    /\ Handle([kind |-> "PageDown", input_action |-> NoInput])

MoveToStart ==
    /\ phase = "ready"
    /\ Handle([kind |-> "MoveToStart", input_action |-> NoInput])

MoveToEnd ==
    /\ phase = "ready"
    /\ Handle([kind |-> "MoveToEnd", input_action |-> NoInput])

\* An edit that reports ContentChanged leaves a text different from the
\* current one.
FilterInput ==
    \E ia \in InputActions :
        /\ phase = "ready"
        /\ ia.result = "ContentChanged" => ia.content # input
        /\ Handle([kind |-> "FilterInput", input_action |-> ia])

Submit ==
    /\ phase = "ready"
    /\ LET r == submit(Self)
       IN  /\ Store(r.self)
           /\ fetch_calls' = r.self.calls
           /\ result' = r.result
           /\ answer' = r.answer
           /\ phase' = IF r.result = "Panic" THEN "panicked"
                       ELSE IF r.answer # <<>> THEN "done" ELSE "ready"
    /\ lastAction' = "submit"
    /\ prev' = Self
    /\ moveRun' = NoRun
    /\ lastInput' = NoInput
    /\ UNCHANGED <<vim_mode, key, decoded>>

Next ==
    \/ Setup
    \/ MoveUp
    \/ MoveDown
    \/ PageUp
    \/ PageDown
    \/ MoveToStart
    \/ MoveToEnd
    \/ FilterInput
    \/ Submit

Spec == Init /\ [][Next]_vars

\* The key decoder on its own: the outer loop hands one key after another to
\* from_key; decoding touches nothing of the prompt.
Decode ==
    \E k \in Keys :
        /\ key' = k
        /\ decoded' = from_key(k, vim_mode)
        /\ UNCHANGED <<offset, window_length, total_length, cursor_index,
                       fetched_options, input, phase, lastAction, result, answer,
                       prev, moveRun, fetch_calls, lastInput, vim_mode>>

NextKeys == Decode

SpecKeys == Init /\ [][NextKeys]_vars

\* =================================================================== claims
\* The offset-derivation rule of set_cursor, as the specification words it.
OffsetRule(cursor, total, window) ==
    Min(Min(cursor, saturating_sub(total, window)),
        saturating_sub(cursor, window \div 2))

\* The window fields and slice are exactly those before the last operation.
Unchanged == Self = prev

\* C1 - Cursor validity: in every state after setup, whatever moves and
\* filter edits followed, a non-empty list has its cursor inside it:
\* total_length > 0 => cursor_index < total_length.
C1_CursorValid ==
    (phase # "new" /\ total_length > 0) => cursor_index < total_length

\* C1 witness: a filter edit left fewer matches than the old cursor index,
\* and the list is not empty.
C1_Witness ==
    /\ lastAction = "FilterInput"
    /\ total_length > 0
    /\ prev.cursor_index >= total_length

\* C1 witness of the other entry: setup with a starting cursor beyond the list.
C1_WitnessSetup ==
    /\ lastAction = "setup"
    /\ total_length > 0
    /\ prev.cursor_index >= total_length

\* C2 - Offset bound (the claim as stated): after setup and any actions, a
\* non-empty list has offset <= total_length.saturating_sub(window_length).
C2_OffsetBound ==
    (phase # "new" /\ total_length > 0)
        => offset <= saturating_sub(total_length, window_length)

\* C3 - Slice/offset consistency (the claim as stated): after setup and
\* after every handled action, the item at local index i of the fetched
\* slice is the option the source holds, for the current filter text, at
\* logical index offset + i.
C3_SliceMatchesOffset ==
    phase = "ready" =>
        \A i \in 1..Len(fetched_options) :
            /\ offset + i <= Len(Matching(input))
            /\ fetched_options[i] = Matching(input)[offset + i]

\* C4 - Clamp law: when a filter edit changes the text so that fewer options
\* match than the previous cursor index, the cursor ends on the last match
\* (on 0 when nothing matches) and the offset is the one derived from it.
C4_ClampLaw ==
    (/\ lastAction = "FilterInput"
     /\ input # prev.input
     /\ total_length < prev.cursor_index)
        => /\ cursor_index = saturating_sub(total_length, 1)
           /\ offset = OffsetRule(cursor_index, total_length, window_length)

\* C4 witness: the shape of scenario 3, scaled: the cursor stood at 8 and the
\* edit left 2 matches; the cursor is now 1 and the offset 0.
C4_Witness ==
    /\ lastAction = "FilterInput"
    /\ input # prev.input
    /\ prev.cursor_index = 8
    /\ total_length = 2
    /\ cursor_index = 1
    /\ offset = 0

\* C5 - Submit result (the claim as stated): an answer returned by submit
\* carries the highlighted item and its logical index, the cursor index.
C5_SubmitLogicalIndex ==
    (lastAction = "submit" /\ answer # <<>>)
        => /\ answer[1].index = prev.cursor_index
           /\ answer[1].value = prev.fetched_options[fetched_index_from_cursor_index(prev) + 1]

\* C6 - Paging (the claim as stated): PageUp, PageDown, MoveToStart and
\* MoveToEnd are handled to completion and move the cursor as defined.
C6_PagingHandled ==
    lastAction \in TodoKinds =>
        /\ result # "Panic"
        /\ prev.total_length > 0 =>
            cursor_index =
                CASE lastAction = "PageUp" ->
                        (prev.cursor_index + prev.total_length
                            - (prev.window_length % prev.total_length)) % prev.total_length
                  [] lastAction = "PageDown" ->
                        (prev.cursor_index + prev.window_length) % prev.total_length
                  [] lastAction = "MoveToStart" -> 0
                  [] lastAction = "MoveToEnd" -> prev.total_length - 1

\* C7 - Wrap law: total_length consecutive MoveDown (or MoveUp) actions on a
\* non-empty list, with the filter text untouched, bring the cursor back to
\* where the run started.
C7_WrapLaw ==
    (moveRun.kind \in MoveKinds /\ total_length > 0 /\ moveRun.n = total_length)
        => cursor_index = moveRun.start

\* C7 witness: a full circle of MoveDown over at least three options.
C7_Witness ==
    /\ moveRun.kind = "MoveDown"
    /\ total_length >= 3
    /\ moveRun.n = total_length
    /\ cursor_index = moveRun.start

\* C7 witness for the other direction.
C7_WitnessUp ==
    /\ moveRun.kind = "MoveUp"
    /\ total_length >= 3
    /\ moveRun.n = total_length
    /\ cursor_index = moveRun.start

\* C8 - Single-step move: on a non-empty list MoveUp puts the cursor on
\* (cursor + total - 1) mod total and MoveDown on (cursor + 1) mod total;
\* when the cursor changed, the offset after the action (refetch included)
\* is min(cursor, total - window saturating, cursor - window/2 saturating).
C8_SingleStep ==
    (lastAction \in MoveKinds /\ prev.total_length > 0)
        => /\ total_length = prev.total_length
           /\ lastAction = "MoveUp" =>
                cursor_index = (prev.cursor_index + prev.total_length - 1) % prev.total_length
           /\ lastAction = "MoveDown" =>
                cursor_index = (prev.cursor_index + 1) % prev.total_length
           /\ cursor_index # prev.cursor_index =>
                /\ offset = OffsetRule(cursor_index, total_length, window_length)
                /\ result = "NeedsRedraw"

\* C8 witness: scenario 1: window 3, 10 options, cursor 0, MoveUp: cursor 9,
\* offset 7.
C8_Witness ==
    /\ lastAction = "MoveUp"
    /\ window_length = 3
    /\ prev.total_length = 10
    /\ prev.cursor_index = 0
    /\ cursor_index = 9
    /\ offset = 7

\* C9 - Empty list: when nothing matches the filter, MoveUp and MoveDown
\* change nothing and report Clean, and submit returns no answer.
C9_EmptyList ==
    /\ (lastAction \in MoveKinds /\ prev.total_length = 0 /\ Len(Matching(prev.input)) = 0)
            => Unchanged /\ result = "Clean"
    /\ (lastAction = "submit" /\ prev.total_length = 0 /\ Len(Matching(prev.input)) = 0)
            => Unchanged /\ result = "Ok" /\ answer = <<>>

\* C9 witness: a MoveUp on the empty list.
C9_Witness ==
    /\ lastAction = "MoveUp"
    /\ prev.total_length = 0
    /\ Len(Matching(prev.input)) = 0

\* C9 witness: a submit on the empty list.
C9_WitnessSubmit ==
    /\ lastAction = "submit"
    /\ prev.total_length = 0
    /\ Len(Matching(prev.input)) = 0

\* C10 - Submit with nothing highlighted: submit never fails, and when the
\* local index cursor_index - offset addresses no item of the slice it
\* returns no answer and changes nothing.
C10_SubmitNothing ==
    lastAction = "submit" =>
        /\ result = "Ok"
        /\ fetched_index_from_cursor_index(prev) >= Len(prev.fetched_options)
                => Unchanged /\ answer = <<>>

\* C10 witness: a submit while the local index is outside the slice.
C10_Witness ==
    /\ lastAction = "submit"
    /\ fetched_index_from_cursor_index(prev) >= Len(prev.fetched_options)
    /\ answer = <<>>

\* ------------------------------------------------------- claims C11 to C20
\* The prompt record without its log of fetch calls.
WithoutCalls(self) == [self EXCEPT !.calls = <<>>]

\* C11 - Page descriptor cursor (the claim as stated): the page built by
\* render carries the cursor cursor_index - offset when that index addresses
\* an item of the fetched slice, and no cursor when it does not.
C11_PageCursor ==
    phase = "ready" =>
        render(Self).cursor =
            IF cursor_index - offset \in 0..(Len(fetched_options) - 1)
            THEN <<cursor_index - offset>>
            ELSE <<>>

\* An unmodified k or j, the keys of the vim bindings.
IsVimKey(k) == k.code = "Char" /\ k.ch \in {"k", "j"} /\ k.mods = "NONE"

\* What a key handed to the filter input decoder yields.
Forwarded(k) ==
    IF InputAction_from_key(k) = <<>>
    THEN <<>>
    ELSE <<[kind |-> "FilterInput", input_action |-> InputAction_from_key(k)[1]]>>

\* C12 - Vim-mode decoding: with vim_mode on, an unmodified k decodes to
\* MoveUp and an unmodified j to MoveDown, never to a filter edit; with
\* vim_mode off the same keys are what the filter input decoder makes of
\* them.
C12_VimDecoding ==
    (key # NoKey /\ IsVimKey(key)) =>
        IF vim_mode
        THEN /\ key.ch = "k" => decoded = <<[kind |-> "MoveUp", input_action |-> [op |-> "-", ch |-> "-"]]>>
             /\ key.ch = "j" => decoded = <<[kind |-> "MoveDown", input_action |-> [op |-> "-", ch |-> "-"]]>>
        ELSE /\ decoded = Forwarded(key)
             /\ decoded # <<>> => decoded[1].kind = "FilterInput"

\* C12 witness: vim_mode on, j pressed, MoveDown decoded (scenario 4).
C12_Witness ==
    /\ vim_mode
    /\ key = [code |-> "Char", ch |-> "j", mods |-> "NONE"]
    /\ decoded = <<[kind |-> "MoveDown", input_action |-> [op |-> "-", ch |-> "-"]]>>

\* C12 witness with vim_mode off: j is a character written to the filter.
C12_WitnessOff ==
    /\ ~vim_mode
    /\ key = [code |-> "Char", ch |-> "j", mods |-> "NONE"]
    /\ decoded = <<[kind |-> "FilterInput", input_action |-> [op |-> "Write", ch |-> "j"]]>>

\* The standard bindings as the specification lists them: the action kind a
\* key is bound to, "none" for every other key.
StandardBinding(k) ==
    CASE k = [code |-> "Up", ch |-> "-", mods |-> "NONE"] -> "MoveUp"
      [] k = [code |-> "Char", ch |-> "p", mods |-> "CONTROL"] -> "MoveUp"
      [] k = [code |-> "Down", ch |-> "-", mods |-> "NONE"] -> "MoveDown"
      [] k = [code |-> "Char", ch |-> "n", mods |-> "CONTROL"] -> "MoveDown"
      [] k.code = "PageUp" -> "PageUp"
      [] k.code = "PageDown" -> "PageDown"
      [] k.code = "Home" -> "MoveToStart"
      [] k.code = "End" -> "MoveToEnd"
      [] OTHER -> "none"

StandardDecoding(k) ==
    IF StandardBinding(k) # "none"
    THEN <<[kind |-> StandardBinding(k), input_action |-> [op |-> "-", ch |-> "-"]]>>
    ELSE Forwarded(k)

\* C13 - Standard key decoding (the claim as stated): whatever vim_mode is,
\* the bound keys decode to their actions and every other key is handed to
\* the filter input decoder.
C13_StandardDecoding ==
    key # NoKey => decoded = StandardDecoding(key)

\* C13 as amended: the same, for every key but an unmodified k or j pressed
\* while vim_mode is on.
C13_StandardDecodingAmended ==
    (key # NoKey /\ ~(vim_mode /\ IsVimKey(key))) => decoded = StandardDecoding(key)

\* C13 witness: Up with Shift held is not a move; the filter input decoder
\* makes nothing of it and no action is decoded.
C13_Witness ==
    /\ key = [code |-> "Up", ch |-> "-", mods |-> "SHIFT"]
    /\ decoded = <<>>

\* C13 witness: Ctrl-N decodes to MoveDown with vim_mode on as well.
C13_WitnessCtrlN ==
    /\ vim_mode
    /\ key = [code |-> "Char", ch |-> "n", mods |-> "CONTROL"]
    /\ decoded = <<[kind |-> "MoveDown", input_action |-> [op |-> "-", ch |-> "-"]]>>

\* C14 - Cursor inside viewport: after setup and any actions,
\* offset <= cursor_index and offset + window_length >=
\* min(cursor_index + 1, total_length); on a non-empty list
\* offset <= cursor_index < offset + window_length.
C14_CursorInViewport ==
    phase # "new" =>
        /\ offset <= cursor_index
        /\ offset + window_length >= Min(cursor_index + 1, total_length)
        /\ total_length > 0 => cursor_index < offset + window_length

\* C14 witness: after a move the cursor sits on the last row of a viewport
\* that does not start at the top.
C14_Witness ==
    /\ lastAction \in MoveKinds
    /\ total_length > 0
    /\ offset > 0
    /\ window_length >= 2
    /\ cursor_index = offset + window_length - 1

\* C15 - Offset derivation after every refetch (the claim as stated): when
\* the last operation ran refetch, the offset is the one the derivation rule
\* gives for the cursor and the new total_length.
C15_OffsetRederived ==
    (phase = "ready" /\ fetch_calls # <<>>)
        => offset = OffsetRule(cursor_index, total_length, window_length)

\* C16 - Fetch protocol: one action calls the source at most once; a move
\* calls it once, with the filter text, the offset the move left and
\* window_length; a filter edit calls it once (at the offset it found) if
\* the input reports ContentChanged and otherwise not at all, leaving the
\* window and slice as they were; a filter edit returns the input's report.
C16_FetchProtocol ==
    /\ Len(fetch_calls) <= 1
    /\ lastAction \in MoveKinds =>
            fetch_calls = << <<input, offset, window_length>> >>
    /\ lastAction = "FilterInput" =>
            /\ lastInput.result = "ContentChanged" =>
                    fetch_calls = << <<input, prev.offset, window_length>> >>
            /\ lastInput.result # "ContentChanged" =>
                    fetch_calls = <<>> /\ Unchanged
            /\ result = IF lastInput.result = "Clean" THEN "Clean" ELSE "NeedsRedraw"

\* C16 witness: an edit that only moved the text cursor: no fetch, redraw.
C16_Witness ==
    /\ lastAction = "FilterInput"
    /\ lastInput.result = "PositionChanged"
    /\ fetch_calls = <<>>
    /\ result = "NeedsRedraw"

\* C16 witness: an edit that changed the text fetched once.
C16_WitnessChanged ==
    /\ lastAction = "FilterInput"
    /\ lastInput.result = "ContentChanged"
    /\ Len(fetch_calls) = 1
    /\ offset # prev.offset

\* C17 - set_cursor idempotence: in every reachable state
\* update_cursor_position with the current cursor_index reports Clean and
\* changes nothing; a move over a single option, which calls it so, reports
\* Clean and leaves cursor and offset alone.
C17_SetCursorIdempotent ==
    /\ update_cursor_position(Self, cursor_index) = [self |-> Self, result |-> "Clean"]
    /\ (lastAction \in MoveKinds /\ prev.total_length = 1)
            => /\ result = "Clean"
               /\ cursor_index = prev.cursor_index
               /\ offset = prev.offset

\* C17 witness: MoveDown over a list of one option called
\* update_cursor_position with the cursor it already had.
C17_Witness ==
    /\ lastAction = "MoveDown"
    /\ prev.total_length = 1
    /\ result = "Clean"

\* C17 witness: a reachable state whose offset is not the derived one, where
\* re-deriving would show.
C17_WitnessUnderived ==
    /\ phase = "ready"
    /\ offset # OffsetRule(cursor_index, total_length, window_length)

\* C18 - Highlight availability (the claim as stated): after setup and after
\* every handled action, a non-empty list has its cursor on a present item
\* of the fetched slice.
C18_HighlightAvailable ==
    (phase = "ready" /\ total_length > 0) => has_answer_highlighted(Self)

\* C19 - Clean means unchanged (the claim as stated): when a MoveUp or
\* MoveDown reports Clean, the page render builds is the one it built before
\* the action.
C19_CleanMeansUnchanged ==
    (lastAction \in MoveKinds /\ result = "Clean") => render(Self) = render(prev)

\* C20 - Refetch idempotence (the claim as stated): right after an operation
\* that ran refetch, and with the filter text as it is, another refetch
\* leaves cursor_index, offset, total_length and the slice as they are.
C20_RefetchIdempotent ==
    (phase = "ready" /\ fetch_calls # <<>>) => WithoutCalls(refetch(Self)) = Self


====
